---- MODULE Spec2Model ----
(***************************************************************************)
(* Model of service/runner_docker.go: the docker runner (Start, Cleanup,   *)
(* GetContainerDir), the container handle (Terminate, Kill, Cleanup), the  *)
(* background garbage collector gc(), and the docker runtime they drive.   *)
(*                                                                         *)
(* The registry is r.containerIDs (map id -> time.Time) guarded by r.mutex.*)
(* Every docker client call is one step of its caller with every outcome   *)
(* the caller distinguishes: success, *docker.NoSuchContainer, other error.*)
(* The create options Start builds (binds, ports, name) do not influence   *)
(* the registry or the container life cycle and are not carried in the     *)
(* runtime's container records.                                            *)
(***************************************************************************)
EXTENDS FiniteSets, Integers, Sequences, TLC

\* ---------------------------------------------------------------- bounds
NumStarters == 2      \* goroutines calling Start
MaxTime == 2          \* last clock value (one unit = one minute)
MaxStarts == 2        \* calls of dockerRunner.Start in one behaviour
MaxCleanups == 1      \* calls of dockerRunner.Cleanup in one behaviour
MaxDirLen == 5        \* longest host directory given to GetContainerDir

\* ------------------------------------------------------ program constants
GcDelay == 1          \* r.gcDelay, in clock units
SleepTicks == 1       \* time.Sleep(time.Minute) in gc()

Procs == 1..NumStarters
Ids == 1..MaxStarts
NoId == 0
Times == 0..MaxTime

\* strings are sequences of characters
Chars == {"/", "d"}
DataDir == <<"/", "d", "a", "t", "a">>
NoVolumesFrom == <<>>
VolumesFromChoices == {NoVolumesFrom, <<"v">>}
HostDirs == UNION {[1..n -> Chars] : n \in 0..MaxDirLen} \cup {DataDir}

VARIABLES
  now,          \* the clock read by time.Now()
  containers,   \* docker runtime: id -> [state, created, finished]
  nextId,       \* next identifier the runtime assigns
  containerIDs, \* r.containerIDs: id -> registration time
  mapNil,       \* r.containerIDs == nil
  mutex,        \* holder of r.mutex
  gcOnce,       \* r.gcOnce has fired
  gcTasks,      \* number of gc() goroutines started
  gcPc, gcIds, gcCur, gcC, gcErr,   \* gc(): position, ids still to visit, current id, inspected container, err
  pc, cid, ret, \* Start per goroutine: position, created id, last return value
  clPc, clTodo, clCur, clErr, clRet, cleanups,  \* Cleanup: position, ids still to range over, current id, err, return value, calls made
  panicked,     \* an unrecovered panic ended the process
  recorded, unregGc, unregCleanup, started, startFailed, startCalls, gcStartCall,  \* history
  gcNotFound,   \* history of the current gc pass
  clIssued, clSnapshot,   \* history of the current Cleanup call
  volumesFrom, dirCall,   \* r.volumesFrom and the last GetContainerDir call
  hSeq, hRet    \* per handle: progress through Terminate, Kill, Cleanup; last return value

vars == <<now, containers, nextId, containerIDs, mapNil, mutex, gcOnce, gcTasks,
          gcPc, gcIds, gcCur, gcC, gcErr, pc, cid, ret, clPc, clTodo, clCur, clErr,
          clRet, cleanups, panicked, recorded, unregGc, unregCleanup, started,
          startFailed, startCalls, gcStartCall, gcNotFound, clIssued, clSnapshot,
          volumesFrom, dirCall, hSeq, hRet>>

rtVars == <<containers, nextId>>
regVars == <<containerIDs, mapNil>>
gcVars == <<gcPc, gcIds, gcCur, gcC, gcErr, gcNotFound>>
startVars == <<pc, cid, ret, started, startFailed, startCalls>>
clVars == <<clPc, clTodo, clCur, clErr, clRet, cleanups, clIssued, clSnapshot>>
dirVars == <<volumesFrom, dirCall>>
onceVars == <<gcOnce, gcTasks, gcStartCall>>
hVars == <<hSeq, hRet>>

NoContainer == [state |-> "none", created |-> 0, finished |-> 0]
EmptyMap == [i \in {} |-> 0]

\* ------------------------------------------------ pure functions of the code

\* faulty variant: the two branches exchanged
GetContainerDirSwapped(vf, hostDir) == IF vf # NoVolumesFrom THEN DataDir ELSE hostDir

\* GetContainerDir (runner_docker.go:54-59)
GetContainerDir(vf, hostDir) == IF vf # NoVolumesFrom THEN hostDir ELSE DataDir

\* ts.Before(boundary), time.Time.Before
Before(t, boundary) == t < boundary

\* faulty variant: the state of the container is not looked at
canGCAnyState(c, t) == Before(c.created, t - GcDelay)

\* faulty variant: a created container is never collectable
canGCSkipsCreated(c, t) == c.state \in {"dead", "exited"} /\ Before(c.finished, t - GcDelay)

\* faulty variant: the age of an exited container is not looked at
canGCIgnoresAge(c, t) == c.state \in {"dead", "exited", "created"}

\* canGC closure in gc() (runner_docker.go:181-196)
canGC(c, t) ==
  LET gcBoundary == t - GcDelay IN
  CASE c.state \in {"dead", "exited"} -> Before(c.finished, gcBoundary)
    [] c.state = "created" -> Before(c.created, gcBoundary)
    [] OTHER -> FALSE

\* the loop body of gatherCollectableContainerIDs (runner_docker.go:231-236)
Collectable(m, t) == {id \in DOMAIN m : Before(m[id], t - GcDelay)}

\* map assignment m[id] = ts and delete(m, id)
MapPut(m, id, ts) == [i \in DOMAIN m \cup {id} |-> IF i = id THEN ts ELSE m[i]]
MapDelete(m, id) == [i \in DOMAIN m \ {id} |-> m[i]]

\* faulty variant: no one-shot gate
OnceRunsAlways(done) == TRUE

\* sync.Once.Do: does the function run?
OnceRuns(done) == ~done

\* faulty variant: no error is recognised as not-found
isNoSuchContainerNever(err) == FALSE

\* isNoSuchContainer (runner_docker.go:282-290) on the error kinds of the model
isNoSuchContainer(err) == err = "NoSuchContainer"

Running == {"running", "paused", "restarting"}

Init ==
  /\ now = 0
  /\ containers = EmptyMap
  /\ nextId = 1
  /\ containerIDs = EmptyMap
  /\ mapNil = FALSE
  /\ mutex = "free"
  /\ gcOnce = FALSE
  /\ gcTasks = 0
  /\ gcPc = "notstarted"
  /\ gcIds = {}
  /\ gcCur = NoId
  /\ gcC = NoContainer
  /\ gcErr = "nil"
  /\ pc = [p \in Procs |-> "idle"]
  /\ cid = [p \in Procs |-> NoId]
  /\ ret = [p \in Procs |-> "none"]
  /\ clPc = "idle"
  /\ clTodo = {}
  /\ clCur = NoId
  /\ clErr = "nil"
  /\ clRet = "none"
  /\ cleanups = 0
  /\ panicked = FALSE
  /\ recorded = {}
  /\ unregGc = {}
  /\ unregCleanup = {}
  /\ started = {}
  /\ startFailed = {}
  /\ startCalls = 0
  /\ gcStartCall = 0
  /\ gcNotFound = {}
  /\ clIssued = {}
  /\ clSnapshot = {}
  /\ volumesFrom = NoVolumesFrom
  /\ dirCall = <<>>
  /\ hSeq = [i \in Ids |-> 0]
  /\ hRet = [i \in Ids |-> "none"]

\* ------------------------------------------------------------------ Start

\* r.gcOnce.Do(func() { go r.gc() }) at the head of Start (runner_docker.go:61-63)
StartBegin(p) ==
  /\ ~panicked
  /\ pc[p] = "idle"
  /\ startCalls < MaxStarts
  /\ startCalls' = startCalls + 1
  /\ pc' = [pc EXCEPT ![p] = "pull"]
  /\ cid' = [cid EXCEPT ![p] = NoId]
  /\ ret' = [ret EXCEPT ![p] = "none"]
  /\ IF OnceRuns(gcOnce)
       THEN /\ gcTasks' = gcTasks + 1
            /\ gcStartCall' = startCalls + 1
            /\ gcPc' = "gather"
       ELSE UNCHANGED <<gcTasks, gcStartCall, gcPc>>
  /\ gcOnce' = TRUE
  /\ UNCHANGED <<now, rtVars, regVars, mutex, gcIds, gcCur, gcC, gcErr, gcNotFound,
                 started, startFailed, clVars, panicked, recorded,
                 unregGc, unregCleanup, dirVars, hVars>>

\* faulty variant: a failed pull does not abort the start
StartAfterPullContinues(err) == "create"

\* if err := r.client.PullImage(...); err != nil { return } (runner_docker.go:71-73)
StartAfterPull(err) == IF err # "nil" THEN "idle" ELSE "create"

\* r.client.PullImage (runner_docker.go:65-73)
StartPull(p) ==
  /\ ~panicked
  /\ pc[p] = "pull"
  /\ \E err \in {"nil", "errPull"} :
       /\ pc' = [pc EXCEPT ![p] = StartAfterPull(err)]
       /\ ret' = IF err = "nil" THEN ret ELSE [ret EXCEPT ![p] = err]
  /\ UNCHANGED <<now, rtVars, regVars, mutex, onceVars, gcVars, cid, started,
                 startFailed, startCalls, clVars, panicked, recorded,
                 unregGc, unregCleanup, dirVars, hVars>>

\* r.client.CreateContainer (runner_docker.go:113-117); the runtime creates
\* at most limit containers in a behaviour
Create(p, limit) ==
  /\ ~panicked
  /\ pc[p] = "create"
  /\ \/ /\ nextId \in 1..limit
        /\ containers' = [i \in DOMAIN containers \cup {nextId} |->
                            IF i = nextId
                              THEN [state |-> "created", created |-> now, finished |-> 0]
                              ELSE containers[i]]
        /\ nextId' = nextId + 1
        /\ cid' = [cid EXCEPT ![p] = nextId]
        /\ pc' = [pc EXCEPT ![p] = "record"]
        /\ ret' = ret
     \/ /\ pc' = [pc EXCEPT ![p] = "idle"]
        /\ ret' = [ret EXCEPT ![p] = "errCreate"]
        /\ UNCHANGED <<containers, nextId, cid>>
  /\ UNCHANGED <<now, regVars, mutex, onceVars, gcVars, started, startFailed,
                 startCalls, clVars, panicked, recorded, unregGc,
                 unregCleanup, dirVars, hVars>>

\* faulty variant: the write is lost
recordNothing(m, id, ts) == m

\* faulty variant: the write replaces the map (a lost update)
recordOverwrites(m, id, ts) == [i \in {id} |-> ts]

StartCreate(p) == Create(p, MaxStarts)

\* recordContainerID (runner_docker.go:166-170); called at runner_docker.go:118.
\* Assigning into a nil map panics.
recordContainerID(m, id, ts) == MapPut(m, id, ts)

StartRecord(p) ==
  /\ ~panicked
  /\ pc[p] = "record"
  /\ mutex = "free"
  /\ IF mapNil
       THEN /\ panicked' = TRUE
            /\ UNCHANGED <<containerIDs, recorded, pc>>
       ELSE /\ containerIDs' = recordContainerID(containerIDs, cid[p], now)
            /\ recorded' = recorded \cup {cid[p]}
            /\ pc' = [pc EXCEPT ![p] = "start"]
            /\ UNCHANGED panicked
  /\ UNCHANGED <<now, rtVars, mapNil, mutex, onceVars, gcVars, cid, ret, started,
                 startFailed, startCalls, clVars, unregGc, unregCleanup,
                 dirVars, hVars>>

\* r.client.StartContainer and the return (runner_docker.go:119-127)
StartStart(p) ==
  /\ ~panicked
  /\ pc[p] = "start"
  /\ \/ /\ cid[p] \in DOMAIN containers
        /\ containers[cid[p]].state = "created"
        /\ containers' = [containers EXCEPT ![cid[p]].state = "running"]
        /\ ret' = [ret EXCEPT ![p] = "ok"]
        /\ started' = started \cup {cid[p]}
        /\ UNCHANGED startFailed
     \/ /\ ret' = [ret EXCEPT ![p] = "errStart"]
        /\ startFailed' = startFailed \cup {cid[p]}
        /\ UNCHANGED <<containers, started>>
  /\ pc' = [pc EXCEPT ![p] = "idle"]
  /\ UNCHANGED <<now, nextId, regVars, mutex, onceVars, gcVars, cid, startCalls,
                 clVars, panicked, recorded, unregGc, unregCleanup,
                 dirVars, hVars>>

\* ------------------------------------------------------- the docker runtime

\* client.RemoveContainer(ID, Force): the answers the runtime can give and the
\* containers it leaves. A non-forced removal of a running container is refused.
RemoveResults(cs, id, force) ==
  IF id \notin DOMAIN cs
    THEN {[err |-> "NoSuchContainer", cs |-> cs], [err |-> "other", cs |-> cs]}
    ELSE {[err |-> "other", cs |-> cs]} \cup
         (IF force \/ cs[id].state \notin Running
            THEN {[err |-> "nil", cs |-> [i \in DOMAIN cs \ {id} |-> cs[i]]]}
            ELSE {})

\* client.InspectContainer(id): the answers the runtime can give
InspectResults(cs, id) ==
  IF id \notin DOMAIN cs
    THEN {[err |-> "NoSuchContainer", c |-> NoContainer], [err |-> "other", c |-> NoContainer]}
    ELSE {[err |-> "nil", c |-> cs[id]], [err |-> "other", c |-> NoContainer]}

\* ---------------------------------------------------------- runner Cleanup

\* faulty variant: the loop ranges over nothing
CleanupTargetsNone(m) == {}

\* for id := range r.containerIDs (runner_docker.go:151)
CleanupTargets(m) == DOMAIN m

\* Force: true in Cleanup's RemoveContainerOptions (runner_docker.go:153-156)
CleanupForce == TRUE

\* r.mutex.Lock() at the head of Cleanup (runner_docker.go:147-149)
CleanupBegin ==
  /\ ~panicked
  /\ clPc = "idle"
  /\ cleanups < MaxCleanups
  /\ mutex = "free"
  /\ mutex' = "cleanup"
  /\ clPc' = "range"
  /\ clTodo' = CleanupTargets(containerIDs)
  /\ clSnapshot' = DOMAIN containerIDs
  /\ clIssued' = {}
  /\ clRet' = "none"
  /\ cleanups' = cleanups + 1
  /\ UNCHANGED <<now, rtVars, regVars, onceVars, gcVars, startVars, clCur, clErr,
                 panicked, recorded, unregGc, unregCleanup, dirVars, hVars>>

\* is the error of a removal in Cleanup logged as a failure? (runner_docker.go:156)
CleanupFailed(err) == err # "nil" /\ ~isNoSuchContainer(err)

\* one iteration of the range loop: RemoveContainer, forced (runner_docker.go:151-156)
CleanupRemove(id) ==
  /\ ~panicked
  /\ clPc = "range"
  /\ id \in clTodo
  /\ \E r \in RemoveResults(containers, id, CleanupForce) :
       /\ containers' = r.cs
       /\ IF CleanupFailed(r.err)
            THEN clPc' = "warn" /\ clErr' = r.err
            ELSE UNCHANGED <<clPc, clErr>>
  /\ clCur' = id
  /\ clTodo' = clTodo \ {id}
  /\ clIssued' = clIssued \cup {<<id, CleanupForce>>}
  /\ UNCHANGED <<now, nextId, regVars, mutex, onceVars, gcVars, startVars,
                 clRet, cleanups, clSnapshot, panicked, recorded, unregGc,
                 unregCleanup, dirVars, hVars>>

\* r.log.Warningf("Failed to remove container ...") (runner_docker.go:157)
CleanupWarn ==
  /\ ~panicked
  /\ clPc = "warn"
  /\ clPc' = "range"
  /\ clErr' = "nil"
  /\ UNCHANGED <<now, rtVars, regVars, mutex, onceVars, gcVars, startVars, clTodo,
                 clCur, clRet, cleanups, clIssued, clSnapshot, panicked, recorded,
                 unregGc, unregCleanup, dirVars, hVars>>

\* r.containerIDs = nil; return nil; deferred Unlock (runner_docker.go:160-163)
CleanupFinish ==
  /\ ~panicked
  /\ clPc = "range"
  /\ clTodo = {}
  /\ unregCleanup' = unregCleanup \cup DOMAIN containerIDs
  /\ containerIDs' = EmptyMap
  /\ mapNil' = TRUE
  /\ mutex' = "free"
  /\ clRet' = "nil"
  /\ clPc' = "idle"
  /\ UNCHANGED <<now, rtVars, onceVars, gcVars, startVars, clTodo, clCur, clErr,
                 cleanups, clIssued, clSnapshot, panicked, recorded, unregGc,
                 dirVars, hVars>>

\* ------------------------------------------------------------------- gc()

\* faulty variant: every registered identifier is gathered
gatherAllContainerIDs(m, t) == DOMAIN m

\* gatherCollectableContainerIDs (runner_docker.go:226-238), called at :198
gatherCollectableContainerIDs(m, t) == Collectable(m, t)

GcGather ==
  /\ ~panicked
  /\ gcPc = "gather"
  /\ mutex = "free"
  /\ gcIds' = gatherCollectableContainerIDs(containerIDs, now)
  /\ gcPc' = "loop"
  /\ UNCHANGED <<now, rtVars, regVars, mutex, onceVars, gcCur, gcC, gcErr,
                 gcNotFound, startVars, clVars, panicked, recorded, unregGc,
                 unregCleanup, dirVars, hVars>>

\* r.client.InspectContainer(id) and the branch on its error (runner_docker.go:199-208)
GcInspect(id) ==
  /\ ~panicked
  /\ gcPc = "loop"
  /\ id \in gcIds
  /\ gcIds' = gcIds \ {id}
  /\ gcCur' = id
  /\ \E r \in InspectResults(containers, id) :
       /\ gcC' = r.c
       /\ gcErr' = r.err
       /\ gcNotFound' = IF r.err = "NoSuchContainer" THEN gcNotFound \cup {id} ELSE gcNotFound
       /\ gcPc' = IF r.err # "nil"
                    THEN IF isNoSuchContainer(r.err) THEN "unrecordNF" ELSE "warnInspect"
                    ELSE "classify"
  /\ UNCHANGED <<now, rtVars, regVars, mutex, onceVars, startVars, clVars,
                 panicked, recorded, unregGc, unregCleanup, dirVars, hVars>>

\* else if canGC(c) (runner_docker.go:208)
GcClassify ==
  /\ ~panicked
  /\ gcPc = "classify"
  /\ IF canGC(gcC, now)
       THEN gcPc' = "remove"
       ELSE gcPc' = "loop"
  /\ UNCHANGED <<now, gcC, rtVars, regVars, mutex, onceVars, gcIds, gcCur, gcErr,
                 gcNotFound, startVars, clVars, panicked, recorded, unregGc,
                 unregCleanup, dirVars, hVars>>

\* faulty variant: the error of the removal is not looked at
GcRemoveAlwaysSucceeded(err) == TRUE

\* does gc() take the removal as done and unrecord? (runner_docker.go:213-218)
GcRemoveSucceeded(err) == err = "nil"

\* r.client.RemoveContainer(ID: id), not forced (runner_docker.go:209-213)
GcRemove ==
  /\ ~panicked
  /\ gcPc = "remove"
  /\ \E r \in RemoveResults(containers, gcCur, FALSE) :
       /\ containers' = r.cs
       /\ gcErr' = r.err
       /\ gcPc' = IF GcRemoveSucceeded(r.err) THEN "unrecord" ELSE "warnRemove"
  /\ UNCHANGED <<now, nextId, regVars, mutex, onceVars, gcIds, gcCur, gcC,
                 gcNotFound, startVars, clVars, panicked, recorded, unregGc,
                 unregCleanup, dirVars, hVars>>

\* r.log.Warningf("Failed to inspect/remove container ...") (runner_docker.go:206, 214)
GcWarn ==
  /\ ~panicked
  /\ gcPc \in {"warnInspect", "warnRemove"}
  /\ gcPc' = "loop"
  /\ gcErr' = "nil"
  /\ gcC' = NoContainer
  /\ UNCHANGED <<now, rtVars, regVars, mutex, onceVars, gcIds, gcCur,
                 gcNotFound, startVars, clVars, panicked, recorded, unregGc,
                 unregCleanup, dirVars, hVars>>

\* faulty variant: the entry is written instead of deleted
unrecordWritesEntry(m, id) == MapPut(m, id, 0)

\* faulty variant: the delete empties the map
unrecordClearsAll(m, id) == EmptyMap

\* faulty variant: the delete is lost
unrecordKeepsEntry(m, id) == m

\* unrecordContainerID (runner_docker.go:173-177), called at :204 and :217.
\* delete on a nil map is a no-op.
unrecordContainerID(m, id) == MapDelete(m, id)

GcUnrecord ==
  /\ ~panicked
  /\ gcPc \in {"unrecordNF", "unrecord"}
  /\ mutex = "free"
  /\ containerIDs' = unrecordContainerID(containerIDs, gcCur)
  /\ unregGc' = unregGc \cup ({gcCur} \cap DOMAIN containerIDs)
  /\ gcPc' = "loop"
  /\ gcErr' = "nil"
  /\ gcC' = NoContainer
  /\ UNCHANGED <<now, rtVars, mapNil, mutex, onceVars, gcIds, gcCur,
                 gcNotFound, startVars, clVars, panicked, recorded, unregCleanup,
                 dirVars, hVars>>

\* the for loop over ids is exhausted (runner_docker.go:199, 220)
GcPassEnd ==
  /\ ~panicked
  /\ gcPc = "loop"
  /\ gcIds = {}
  /\ gcPc' = "sleep"
  /\ gcCur' = NoId
  /\ gcC' = NoContainer
  /\ gcNotFound' = {}
  /\ UNCHANGED <<now, rtVars, regVars, mutex, onceVars, gcIds, gcErr,
                 startVars, clVars, panicked, recorded, unregGc, unregCleanup,
                 dirVars, hVars>>

\* time.Sleep(time.Minute) and the next iteration of for {} (runner_docker.go:197, 221)
GcSleep ==
  /\ ~panicked
  /\ gcPc = "sleep"
  /\ now + SleepTicks <= MaxTime
  /\ now' = now + SleepTicks
  /\ gcPc' = "gather"
  /\ UNCHANGED <<rtVars, regVars, mutex, onceVars, gcIds, gcCur, gcC, gcErr,
                 gcNotFound, startVars, clVars, panicked, recorded, unregGc,
                 unregCleanup, dirVars, hVars>>

\* ------------------------------------------------------- container handle

\* faulty variant: the runtime never answers for a container that is gone
StopResultsHangsWhenGone(cs, id, t) ==
  IF id \notin DOMAIN cs
    THEN {}
    ELSE {[err |-> "other", cs |-> cs]}

\* client.StopContainer(id, stopContainerTimeout): the answers the runtime can
\* give at time t and the containers it leaves
StopResults(cs, id, t) ==
  IF id \notin DOMAIN cs
    THEN {[err |-> "NoSuchContainer", cs |-> cs], [err |-> "other", cs |-> cs]}
    ELSE {[err |-> "other", cs |-> cs]} \cup
         (IF cs[id].state \in Running
            THEN {[err |-> "nil",
                   cs |-> [cs EXCEPT ![id] = [@ EXCEPT !.state = "exited", !.finished = t]]]}
            ELSE {[err |-> "ContainerNotRunning", cs |-> cs]})

\* client.KillContainer(ID: id): the same answers as a stop, without the grace period
KillResults(cs, id, t) == StopResults(cs, id, t)

\* if err != nil { return maskAny(err) }; return nil (runner_docker.go:255-258)
HandleReturn(err) == IF err # "nil" THEN "err" ELSE "nil"

\* how far the calls on one handle have got through Terminate, Kill, Cleanup
SeqAfter(n, op) ==
  IF (n = 0 /\ op = "Terminate") \/ (n = 1 /\ op = "Kill") \/ (n = 2 /\ op = "Cleanup")
    THEN n + 1 ELSE n

\* the caller of a handle operation receives its return value; when observed,
\* the value and the progress of the calls on that handle are kept
Returned(id, op, err, observed) ==
  IF observed
    THEN /\ hRet' = [hRet EXCEPT ![id] = HandleReturn(err)]
         /\ hSeq' = [hSeq EXCEPT ![id] = SeqAfter(@, op)]
    ELSE /\ HandleReturn(err) \in {"nil", "err"}
         /\ UNCHANGED hVars

\* dockerContainer.Terminate: client.StopContainer (runner_docker.go:254-259)
Terminate(id, observed) ==
  /\ ~panicked
  /\ id \in started
  /\ \E r \in StopResults(containers, id, now) :
       /\ containers' = r.cs
       /\ Returned(id, "Terminate", r.err, observed)
  /\ UNCHANGED <<now, nextId, regVars, mutex, onceVars, gcVars, startVars, clVars,
                 panicked, recorded, unregGc, unregCleanup, dirVars>>

\* dockerContainer.Kill: client.KillContainer (runner_docker.go:261-268)
Kill(id, observed) ==
  /\ ~panicked
  /\ id \in started
  /\ \E r \in KillResults(containers, id, now) :
       /\ containers' = r.cs
       /\ Returned(id, "Kill", r.err, observed)
  /\ UNCHANGED <<now, nextId, regVars, mutex, onceVars, gcVars, startVars, clVars,
                 panicked, recorded, unregGc, unregCleanup, dirVars>>

\* dockerContainer.Cleanup: client.RemoveContainer forced (runner_docker.go:270-279)
Cleanup(id, observed) ==
  /\ ~panicked
  /\ id \in started
  /\ \E r \in RemoveResults(containers, id, TRUE) :
       /\ containers' = r.cs
       /\ Returned(id, "Cleanup", r.err, observed)
  /\ UNCHANGED <<now, nextId, regVars, mutex, onceVars, gcVars, startVars, clVars,
                 panicked, recorded, unregGc, unregCleanup, dirVars>>

HandleTerminate(id) == Terminate(id, FALSE)

HandleKill(id) == Kill(id, FALSE)

HandleCleanup(id) == Cleanup(id, FALSE)

\* ------------------------------------------------------------ environment

\* the process in a container ends by itself (what WaitContainer waits for)
ContainerExit(id) ==
  /\ ~panicked
  /\ id \in DOMAIN containers
  /\ containers[id].state \in Running
  /\ \E s \in {"exited", "dead"} :
       containers' = [containers EXCEPT ![id] = [@ EXCEPT !.state = s, !.finished = now]]
  /\ UNCHANGED <<now, nextId, regVars, mutex, onceVars, gcVars, startVars, clVars,
                 panicked, recorded, unregGc, unregCleanup, dirVars, hVars>>

\* the runtime pauses, restarts or resumes a running container
ContainerRunState(id) ==
  /\ ~panicked
  /\ id \in DOMAIN containers
  /\ containers[id].state \in Running
  /\ \E s \in Running \ {containers[id].state} :
       containers' = [containers EXCEPT ![id].state = s]
  /\ UNCHANGED <<now, nextId, regVars, mutex, onceVars, gcVars, startVars, clVars,
                 panicked, recorded, unregGc, unregCleanup, dirVars, hVars>>

\* time passes
Tick ==
  /\ ~panicked
  /\ now < MaxTime
  /\ now' = now + 1
  /\ UNCHANGED <<rtVars, regVars, mutex, onceVars, gcVars, startVars, clVars,
                 panicked, recorded, unregGc, unregCleanup, dirVars, hVars>>

\* everything but container creation and the handle operations
RunnerNext ==
  \/ \E p \in Procs : StartBegin(p)
  \/ \E p \in Procs : StartPull(p)
  \/ \E p \in Procs : StartRecord(p)
  \/ \E p \in Procs : StartStart(p)
  \/ CleanupBegin
  \/ \E id \in Ids : CleanupRemove(id)
  \/ CleanupWarn
  \/ CleanupFinish
  \/ GcGather
  \/ \E id \in Ids : GcInspect(id)
  \/ GcClassify
  \/ GcRemove
  \/ GcWarn
  \/ GcUnrecord
  \/ GcPassEnd
  \/ GcSleep
  \/ \E id \in Ids : ContainerExit(id)
  \/ \E id \in Ids : ContainerRunState(id)
  \/ Tick

Next ==
  \/ RunnerNext
  \/ \E p \in Procs : StartCreate(p)
  \/ \E id \in Ids : HandleTerminate(id)
  \/ \E id \in Ids : HandleKill(id)
  \/ \E id \in Ids : HandleCleanup(id)

Spec == Init /\ [][Next]_vars

\* ------------------------------------------------- scheduling of goroutines

\* one step of the gc() goroutine
GcStep ==
  \/ GcGather
  \/ \E id \in Ids : GcInspect(id)
  \/ GcClassify
  \/ GcRemove
  \/ GcWarn
  \/ GcUnrecord
  \/ GcPassEnd
  \/ GcSleep

\* one step of a runner Cleanup call in progress
CleanupStep == (\E id \in Ids : CleanupRemove(id)) \/ CleanupWarn \/ CleanupFinish

\* the Go scheduler keeps running the gc() goroutine and a Cleanup call that
\* has taken the mutex
SpecFair == Spec /\ WF_vars(GcStep) /\ WF_vars(CleanupStep)

\* ------------------------------- the handle operations with their returns kept

\* containers created in a behaviour whose handle calls are observed
MaxObserved == 1

ObservedTerminate(id) == Terminate(id, TRUE)

ObservedKill(id) == Kill(id, TRUE)

ObservedCleanup(id) == Cleanup(id, TRUE)

ObservedCreate(p) == Create(p, MaxObserved)

NextHandle ==
  \/ RunnerNext
  \/ \E p \in Procs : ObservedCreate(p)
  \/ \E id \in Ids : ObservedTerminate(id)
  \/ \E id \in Ids : ObservedKill(id)
  \/ \E id \in Ids : ObservedCleanup(id)

SpecHandle == Init /\ [][NextHandle]_vars

\* ------------------------------------------- GetContainerDir on its inputs

InitDir ==
  /\ now = 0 /\ containers = EmptyMap /\ nextId = 1
  /\ containerIDs = EmptyMap /\ mapNil = FALSE /\ mutex = "free"
  /\ gcOnce = FALSE /\ gcTasks = 0 /\ gcStartCall = 0
  /\ gcPc = "notstarted" /\ gcIds = {} /\ gcCur = NoId /\ gcC = NoContainer /\ gcErr = "nil"
  /\ pc = [p \in Procs |-> "idle"] /\ cid = [p \in Procs |-> NoId]
  /\ ret = [p \in Procs |-> "none"]
  /\ clPc = "idle" /\ clTodo = {} /\ clCur = NoId /\ clErr = "nil" /\ clRet = "none" /\ cleanups = 0
  /\ panicked = FALSE
  /\ recorded = {} /\ unregGc = {} /\ unregCleanup = {}
  /\ started = {} /\ startFailed = {} /\ startCalls = 0
  /\ gcNotFound = {} /\ clIssued = {} /\ clSnapshot = {}
  /\ volumesFrom \in VolumesFromChoices
  /\ dirCall = <<>>
  /\ hSeq = [i \in Ids |-> 0]
  /\ hRet = [i \in Ids |-> "none"]

\* a call of r.GetContainerDir(hostDir) (runner_docker.go:54-59)
GetContainerDirCall(hostDir) ==
  /\ dirCall' = <<hostDir, GetContainerDir(volumesFrom, hostDir)>>
  /\ UNCHANGED <<now, rtVars, regVars, mutex, onceVars, gcVars, startVars, clVars,
                 panicked, recorded, unregGc, unregCleanup, volumesFrom, hVars>>

NextDir == \E hostDir \in HostDirs : GetContainerDirCall(hostDir)

SpecDir == InitDir /\ [][NextDir]_vars

\* ================================================================= claims

Keys == DOMAIN containerIDs
Unregistered == unregGc \cup unregCleanup

\* C1 as stated: in every reachable state the Registry's key set is exactly the
\* identifiers for which Start has returned successfully and which neither
\* Cleanup nor the Collector has removed.
C1_Original == Keys = started \ Unregistered

\* C1, amended: in every reachable state the Registry's key set is exactly the
\* identifiers Start has registered after a successful creation (whether the
\* call then returned successfully, failed to start the container, or is still
\* in progress) and which neither Cleanup nor the Collector has unregistered;
\* every identifier Start returned for, with a handle or with a start error,
\* is among the registered ones.
C1_RegistryExact ==
  /\ Keys = recorded \ Unregistered
  /\ started \cup startFailed \subseteq recorded
  /\ recorded \subseteq 1..(nextId - 1)

C1_Witness ==
  /\ startFailed \cap Keys # {}
  /\ unregGc # {}
  /\ started \cap Unregistered # {}

\* C2 as stated: GetContainerDir(h) is "/data" for every h when a volumes-from
\* container is configured and h when none is configured.
C2_Original ==
  dirCall # <<>> =>
    dirCall[2] = IF volumesFrom # NoVolumesFrom THEN DataDir ELSE dirCall[1]

\* C2, amended: GetContainerDir(h) is h unchanged for every h when a
\* volumes-from container is configured, and "/data" for every h when none is
\* configured.
C2_ContainerDir ==
  dirCall # <<>> =>
    dirCall[2] = IF volumesFrom # NoVolumesFrom THEN dirCall[1] ELSE DataDir

C2_Witness ==
  /\ dirCall # <<>>
  /\ volumesFrom # NoVolumesFrom
  /\ dirCall[1] # DataDir
  /\ dirCall[2] = dirCall[1]


\* C3: runner Cleanup issues a forced removal for every identifier registered
\* when it runs (the Registry cannot change while it holds the mutex), can
\* always take its next step until it returns, returns nil and nothing else,
\* and leaves the Registry without entries, whatever each removal answered.
C3_CleanupClears ==
  /\ clRet \in {"none", "nil"}
  /\ clPc # "idle" => /\ ENABLED CleanupStep
                      /\ Keys = clSnapshot
                      /\ clIssued = {<<id, TRUE>> : id \in clSnapshot \ clTodo}
  /\ clRet = "nil" => /\ clIssued = {<<id, TRUE>> : id \in clSnapshot}
                      /\ Keys = {}
                      /\ mutex = "free"

\* Cleanup has returned although a removal failed and left its container behind
C3_Witness ==
  /\ clRet = "nil"
  /\ Cardinality(clSnapshot) = 2
  /\ \E id \in clSnapshot : id \in DOMAIN containers
  /\ \E id \in clSnapshot : id \notin DOMAIN containers

\* C4 as stated: a registered exited container whose finish time is older than
\* now - gcDelay when a Collector pass has classified it is removed from the
\* runtime by that pass and then unregistered; one within gcDelay is not
\* removed and stays registered.
C4_OriginalStep ==
  /\ (gcPc = "classify" /\ gcPc' # "classify" /\ gcC.state = "exited"
        /\ ~(gcC.finished < now - GcDelay)) =>
       (gcPc' = "loop" /\ UNCHANGED <<containers, containerIDs>>)
  /\ (gcPc = "classify" /\ gcPc' # "classify" /\ gcC.state = "exited"
        /\ gcC.finished < now - GcDelay) =>
       gcPc' = "remove"
  /\ (gcPc = "remove" /\ gcPc' # "remove" /\ gcC.state = "exited") =>
       (gcCur \notin DOMAIN containers' /\ gcPc' = "unrecord")
  /\ (gcPc = "unrecord" /\ gcPc' # "unrecord") => gcCur \notin DOMAIN containerIDs'

C4_Original == [][C4_OriginalStep]_vars

\* C4, amended: for a registered container that a Collector pass inspects
\* successfully in state exited: if its finish time is older than now - gcDelay
\* when the pass classifies it, the pass issues a non-forced removal for it and
\* unregisters it if that removal succeeds (if the removal fails, the container
\* and its registration are left as they are); if its finish time is within
\* gcDelay, the pass issues no removal for it and leaves it registered.
C4_Step ==
  /\ (gcPc = "classify" /\ gcPc' # "classify" /\ gcC.state = "exited") =>
       /\ UNCHANGED <<containers, containerIDs>>
       /\ gcPc' = IF gcC.finished < now - GcDelay THEN "remove" ELSE "loop"
  /\ (gcPc = "remove" /\ gcPc' # "remove" /\ gcC.state = "exited") =>
       /\ containerIDs' = containerIDs
       /\ IF gcErr' = "nil"
            THEN gcCur \notin DOMAIN containers' /\ gcPc' = "unrecord"
            ELSE containers' = containers /\ gcPc' = "warnRemove"
  /\ (gcPc = "unrecord" /\ gcPc' # "unrecord") =>
       (gcCur \notin DOMAIN containerIDs' /\ gcPc' = "loop")
  /\ (gcPc = "warnRemove" /\ gcPc' # "warnRemove") =>
       (containerIDs' = containerIDs /\ gcPc' = "loop")

C4_ExitedEligibility == [][C4_Step]_vars

\* the pass has removed an old exited container and is about to unregister it,
\* after it visited and kept a registered exited container that finished within
\* gcDelay
C4_Witness ==
  /\ gcPc = "unrecord"
  /\ gcC.state = "exited"
  /\ gcC.finished < now - GcDelay
  /\ gcCur \in Keys
  /\ gcCur \notin DOMAIN containers
  /\ \E id \in Keys \ (gcIds \cup {gcCur}) :
       /\ containerIDs[id] < now - GcDelay
       /\ id \in DOMAIN containers
       /\ containers[id].state = "exited"
       /\ ~(containers[id].finished < now - GcDelay)

\* C5: when the runtime answers an inspection of the Collector with
\* does-not-exist, the Collector does not log it as a failure, unregisters the
\* identifier in the same pass as its next step, issues no removal for it in
\* that pass, and goes on with the loop.
C5_State ==
  /\ gcPc = "warnInspect" => gcErr # "NoSuchContainer"
  /\ gcErr = "NoSuchContainer" /\ gcPc # "warnRemove" =>
       (gcPc = "unrecordNF" /\ gcCur \in gcNotFound)
  /\ gcPc \in {"classify", "remove", "unrecord", "warnRemove"} => gcCur \notin gcNotFound
  /\ \A id \in gcNotFound : id \in Keys => (gcPc = "unrecordNF" /\ gcCur = id)

C5_Step ==
  (gcPc = "unrecordNF" /\ gcPc' # "unrecordNF") =>
    /\ gcPc' = "loop"
    /\ gcCur \notin DOMAIN containerIDs'
    /\ containers' = containers

C5_NotFoundUnregisters == [](C5_State) /\ [][C5_Step]_vars

\* the Collector has unregistered an identifier inspected as not found and is
\* back in its loop
C5_Witness ==
  /\ gcPc = "loop"
  /\ \E id \in gcNotFound : id \in unregGc /\ id \notin Keys /\ id \in recorded

\* C6: a Start whose image pull fails returns an error having created no
\* container and leaves the Registry as it is; a Start whose container
\* creation fails returns an error and leaves the Registry as it is.
C6_State ==
  \A p \in Procs :
    /\ ret[p] \in {"errPull", "errCreate"} => (pc[p] = "idle" /\ cid[p] = NoId)
    /\ pc[p] \in {"pull", "create"} => (cid[p] = NoId /\ ret[p] = "none")

C6_Step ==
  \A p \in Procs :
    /\ (pc[p] = "pull" /\ pc'[p] # "pull") =>
         /\ UNCHANGED <<containers, nextId, containerIDs, mapNil>>
         /\ pc'[p] = "idle" <=> ret'[p] = "errPull"
    /\ (pc[p] = "create" /\ pc'[p] = "idle") =>
         /\ UNCHANGED <<containers, nextId, containerIDs, mapNil>>
         /\ ret'[p] = "errCreate"
    /\ (pc[p] \in {"pull", "create"} /\ pc'[p] = pc[p]) => ret'[p] = ret[p]

C6_FailedStartRegistersNothing == [](C6_State) /\ [][C6_Step]_vars

\* one Start has failed in its pull and another in its creation
C6_Witness ==
  \E p, q \in Procs : ret[p] = "errPull" /\ ret[q] = "errCreate"

\* C7 as stated, for runs without runner Cleanup: at the step in which Start
\* returns the error of a failed start-container call, the created identifier
\* is registered.
C7_OriginalStep ==
  \A p \in Procs :
    (pc[p] = "start" /\ pc'[p] = "idle" /\ ret'[p] = "errStart" /\ cleanups = 0) =>
      cid[p] \in DOMAIN containerIDs'

C7_Original == [][C7_OriginalStep]_vars

\* C7, what the code keeps of it: if creation succeeds but starting the container fails, Start
\* returns an error and does not unregister the created identifier: the
\* identifier is registered when Start returns unless the Collector or runner
\* Cleanup unregistered it while the Start call was in progress, and once
\* registered it leaves the Registry only by the Collector or runner Cleanup.
C7_State ==
  \A p \in Procs :
    ret[p] = "errStart" =>
      /\ pc[p] = "idle"
      /\ cid[p] \in recorded \cap startFailed
      /\ cid[p] \in Keys \/ cid[p] \in Unregistered

C7_Step ==
  /\ \A p \in Procs :
       (pc[p] = "start" /\ pc'[p] # "start") =>
         /\ UNCHANGED <<containerIDs, mapNil>>
         /\ ret'[p] \in {"ok", "errStart"}
         /\ ret'[p] = "ok" => (cid[p] \in DOMAIN containers' /\ containers'[cid[p]].state = "running")
  /\ \A id \in startFailed \cap Keys :
       id \in DOMAIN containerIDs' \/ id \in unregGc' \cup unregCleanup'

C7_StartFailureKeepsRegistration == [](C7_State) /\ [][C7_Step]_vars

\* Start has returned a start error; its container exists, never started, and
\* is registered
C7_Witness ==
  \E p \in Procs :
    /\ ret[p] = "errStart"
    /\ cid[p] \in Keys
    /\ cid[p] \in DOMAIN containers
    /\ containers[cid[p]].state = "created"

GcRunning == {"gather", "loop", "classify", "remove", "unrecord", "unrecordNF",
              "warnInspect", "warnRemove", "sleep"}

\* C8: whatever the number of Start calls and their interleaving, at most one
\* Collector task is started, it is started by the first Start call, and once
\* started it is always at a position inside its loop.
C8_OneCollector ==
  /\ gcTasks <= 1
  /\ gcTasks = 1 <=> startCalls >= 1
  /\ gcTasks = 1 => (gcStartCall = 1 /\ gcOnce /\ gcPc \in GcRunning)
  /\ gcTasks = 0 => (gcPc = "notstarted" /\ ~gcOnce)

\* every allowed Start call has been made, two of them are in progress at the
\* same time, and one Collector runs
C8_Witness ==
  /\ startCalls = MaxStarts
  /\ \E p, q \in Procs : p # q /\ pc[p] # "idle" /\ pc[q] # "idle"
  /\ gcTasks = 1
  /\ gcPc = "loop"

Quiescent ==
  /\ \A p \in Procs : pc[p] = "idle"
  /\ gcPc \in {"notstarted", "sleep"}
  /\ clPc = "idle"

\* C9 as stated, for runs without runner Cleanup: at quiescence the number of
\* Registry entries is the number of successful Starts minus the number of
\* identifiers the Collector has retired.
C9_Original ==
  (Quiescent /\ cleanups = 0) =>
    Cardinality(Keys) = Cardinality(started) - Cardinality(unregGc)

\* C9, amended: with concurrent Starts racing with the Collector's passes (and
\* no runner Cleanup), no registration is lost and no duplicate or ghost entry
\* appears: at quiescence the number of Registry entries is the number of
\* Starts whose container creation succeeded (each registers its identifier,
\* also when starting the container then fails) minus the number of identifiers
\* the Collector has unregistered, and every entry is such an identifier.
C9_NoLostRegistration ==
  (Quiescent /\ cleanups = 0 /\ ~panicked) =>
    /\ Cardinality(Keys) = (nextId - 1) - Cardinality(unregGc)
    /\ Keys \subseteq 1..(nextId - 1)
    /\ unregGc \cap Keys = {}

\* two Starts have registered, the Collector has retired one of the two
C9_Witness ==
  /\ Quiescent
  /\ cleanups = 0
  /\ nextId - 1 = 2
  /\ Cardinality(unregGc) = 1
  /\ Cardinality(Keys) = 1

\* C10 as stated: a does-not-exist answer to a removal issued by runner Cleanup
\* or by the Collector is never handled as a failure (logged with "Failed to
\* remove container" and, in the Collector, left registered).
C10_Original ==
  /\ clPc = "warn" => clErr # "NoSuchContainer"
  /\ gcPc = "warnRemove" => gcErr # "NoSuchContainer"

\* ---------------------------------------------------------------- C13

HandleStep == hVars' # hVars

\* the handle whose call returned in this step
Caller(id) == hSeq'[id] # hSeq[id] \/ hRet'[id] # hRet[id]

C13_State ==
  /\ \A id \in started :
       ~panicked => /\ ENABLED ObservedTerminate(id)
                    /\ ENABLED ObservedKill(id)
                    /\ ENABLED ObservedCleanup(id)
  /\ \A id \in Ids :
       /\ hSeq[id] \in 0..3
       /\ hRet[id] \in {"none", "nil", "err"}
       /\ hSeq[id] > 0 => hRet[id] \in {"nil", "err"} /\ id \in started

C13_Step ==
  HandleStep =>
    /\ panicked' = panicked
    /\ mutex' = mutex
    /\ UNCHANGED <<regVars, gcVars, startVars, clVars>>
    /\ \A id \in Ids :
         Caller(id) =>
           /\ hRet'[id] \in {"nil", "err"}
           /\ id \notin DOMAIN containers => hRet'[id] = "err" /\ containers' = containers

\* C13: while the process runs, Terminate, Kill and Cleanup can each be called
\* on every handle and return, whatever the state of the container (running,
\* stopped, removed) and whatever Start, runner Cleanup and the collector are
\* doing (the mutex may be held); a handle call returns nil or an error, never
\* sets the panic flag and never touches the mutex or the registry, and on a
\* removed container it returns an error and changes nothing.
C13_HandleCallsReturn == [](C13_State) /\ [][C13_Step]_vars

\* Terminate, Kill and Cleanup were called in that order on one handle while a
\* runner Cleanup was holding the mutex in the middle of a collector pass; the
\* last call found the container already removed
C13_Witness ==
  \E id \in started :
    /\ hSeq[id] = 3
    /\ hRet[id] = "err"
    /\ id \notin DOMAIN containers
    /\ mutex = "cleanup"
    /\ gcPc \in {"loop", "classify", "remove", "warnInspect", "warnRemove"}
    /\ ~panicked

\* ---------------------------------------------------------------- C11

\* a container disappears in a step that is neither a removal of runner
\* Cleanup nor one of the collector: a handle's Cleanup removed it
HandleCleanupRemoved(id) ==
  /\ id \in DOMAIN containers
  /\ id \notin DOMAIN containers'
  /\ clTodo' = clTodo
  /\ gcPc' = gcPc

C11_Step ==
  /\ \A id \in Ids : HandleCleanupRemoved(id) => UNCHANGED regVars
  /\ gcPc = "unrecordNF" /\ gcPc' # gcPc =>
       /\ gcCur \notin DOMAIN containerIDs'
       /\ \A id \in Ids \ {gcCur} : id \in DOMAIN containerIDs' <=> id \in Keys

\* C11: a handle's Cleanup removes its container and leaves the registry as it
\* is; when the collector then inspects the entry left behind and the runtime
\* answers not-found, the collector unregisters exactly that entry, and with
\* the collector scheduled the entry is eventually out of the registry.
C11_StaleEntryReconciled ==
  /\ [][C11_Step]_vars
  /\ \A id \in Ids : (gcPc = "unrecordNF" /\ gcCur = id) ~> (id \notin Keys)

\* a started container was removed by its handle's Cleanup (no runner Cleanup
\* ran, the collector removed nothing), the collector's inspection answered
\* not-found and the collector unregistered the entry
C11_Witness ==
  \E id \in started :
    /\ cleanups = 0
    /\ id \in gcNotFound
    /\ id \in unregGc
    /\ id \notin Keys
    /\ id \notin DOMAIN containers
    /\ gcCur = id
    /\ gcPc = "loop"

\* ---------------------------------------------------------------- C12

\* registered containers that were created and never started
NeverStarted ==
  {id \in Keys \cap DOMAIN containers : containers[id].state = "created" /\ id \notin started}

\* C12 as stated: a pass over a created container older than gcDelay removes
\* and unregisters it; a pass over a younger one leaves it alone
C12_OriginalStep ==
  /\ (gcPc = "classify" /\ gcPc' # "classify" /\ gcC.state = "created") =>
       gcPc' = IF gcC.created < now - GcDelay THEN "remove" ELSE "loop"
  /\ (gcPc = "remove" /\ gcPc' # "remove" /\ gcC.state = "created") =>
       (gcCur \notin DOMAIN containers' /\ gcPc' = "unrecord")
  /\ (gcPc = "unrecord" /\ gcPc' # "unrecord") => gcCur \notin DOMAIN containerIDs'

C12_Original == [][C12_OriginalStep]_vars

C12_State ==
  /\ \A id \in NeverStarted :
       ~(containers[id].created < now - GcDelay) =>
         /\ id \notin gcIds
         /\ gcCur # id
  /\ (gcPc \in {"classify", "remove"} /\ gcC.state = "created") =>
       gcC.created < now - GcDelay

C12_Step ==
  /\ \A id \in NeverStarted :
       ~(containers[id].created < now - GcDelay) /\ gcPc' # gcPc =>
         /\ id \in DOMAIN containerIDs'
         /\ id \in DOMAIN containers'
  /\ (gcPc = "classify" /\ gcPc' # "classify" /\ gcC.state = "created") =>
       /\ UNCHANGED <<containers, containerIDs>>
       /\ gcPc' = "remove"
  /\ (gcPc = "remove" /\ gcPc' # "remove" /\ gcC.state = "created") =>
       /\ containerIDs' = containerIDs
       /\ IF gcErr' = "nil"
            THEN gcCur \notin DOMAIN containers' /\ gcPc' = "unrecord"
            ELSE containers' = containers /\ gcPc' = "warnRemove"
  /\ (gcPc = "unrecord" /\ gcPc' # "unrecord") =>
       (gcCur \notin DOMAIN containerIDs' /\ gcPc' = "loop")

\* C12, amended: a registered container that was created and never started,
\* and whose creation time is not older than now - gcDelay, is in no snapshot
\* of the collector and no collector step removes or unregisters it; one that
\* a pass inspects in state created is older than gcDelay, the pass issues a
\* non-forced removal for it and unregisters it if that removal succeeds (if
\* the removal fails, the container and its registration are left as they are).
C12_CreatedEligibility == [](C12_State) /\ [][C12_Step]_vars

\* the pass has removed a never-started container older than gcDelay and is
\* about to unregister it, while a younger never-started container stays
\* registered and outside the snapshot
C12_Witness ==
  /\ gcPc = "unrecord"
  /\ gcC.state = "created"
  /\ gcC.created < now - GcDelay
  /\ gcCur \in Keys \ started
  /\ gcCur \notin DOMAIN containers
  /\ \E id \in NeverStarted : ~(containers[id].created < now - GcDelay)

\* ---------------------------------------------------------------- C14

\* C14 as stated: no operation holds the mutex while it is inside a runtime
\* call; here for the RemoveContainer calls of runner Cleanup
C14_OriginalStep ==
  (clPc = "range" /\ clTodo' # clTodo) => mutex # "cleanup"

C14_Original == [][C14_OriginalStep]_vars

\* ---------------------------------------------------------------- C15

C15_State ==
  /\ gcPc \in {"remove", "unrecord", "warnRemove"} =>
       gcC.state \in {"dead", "exited", "created"}
  /\ (gcPc = "loop" /\ gcC.state \in Running) =>
       /\ gcCur \notin unregGc
       /\ mapNil \/ gcCur \in Keys

C15_Step ==
  /\ (gcPc = "classify" /\ gcPc' # "classify" /\ gcC.state \in Running) =>
       /\ gcPc' = "loop"
       /\ UNCHANGED <<containers, containerIDs, gcIds>>
  /\ (gcPc = "remove" /\ containers' # containers /\ gcPc' # gcPc) =>
       gcC.state \notin Running

\* C15: a container that the collector inspected in state running, paused or
\* restarting is skipped whatever its age: the collector issues no removal
\* for it, goes on with the loop, and does not unregister it (it stays
\* registered unless runner Cleanup empties the registry).
C15_RunningNeverCollected == [](C15_State) /\ [][C15_Step]_vars

\* the pass is about to end after it skipped a registered container older
\* than gcDelay that it inspected while it was not stopped
C15_Witness ==
  /\ gcPc = "loop"
  /\ gcIds = {}
  /\ gcC.state \in Running
  /\ gcC.created < now - GcDelay
  /\ gcCur \in Keys
  /\ gcCur \in DOMAIN containers

\* ---------------------------------------------------------------- C16

GcWarning == {"warnInspect", "warnRemove"}

C16_State ==
  /\ gcPc \in GcWarning =>
       /\ gcErr # "nil"
       /\ mapNil \/ gcCur \in Keys
       /\ gcCur \in Keys => containerIDs[gcCur] < now - GcDelay
       /\ ~panicked => ENABLED GcWarn
  /\ gcTasks > 0 => gcPc \in GcRunning

C16_Step ==
  /\ (gcPc = "loop" /\ gcPc' \notin {"loop", "sleep"}
        /\ gcErr' \notin {"nil", "NoSuchContainer"}) =>
       /\ gcPc' = "warnInspect"
       /\ UNCHANGED <<containers, regVars>>
       /\ gcIds' = gcIds \ {gcCur'}
  /\ (gcPc = "remove" /\ gcPc' # gcPc /\ gcErr' # "nil") =>
       /\ gcPc' = "warnRemove"
       /\ UNCHANGED <<containers, regVars, gcIds, gcCur>>
  /\ (gcPc \in GcWarning /\ gcPc' # gcPc) =>
       /\ gcPc' = "loop"
       /\ UNCHANGED <<containers, regVars, gcIds, gcCur, panicked>>
  /\ (gcPc = "sleep" /\ gcPc' # gcPc) => gcPc' = "gather"
  /\ (gcPc = "gather" /\ gcPc' # gcPc) =>
       \A id \in Keys : containerIDs[id] < now - GcDelay => id \in gcIds'
  /\ \A id \in Keys :
       (containerIDs[id] < now - GcDelay /\ id \in DOMAIN containerIDs') =>
         containerIDs'[id] < now' - GcDelay

GcInspected == gcPc \in {"classify", "remove", "unrecord", "unrecordNF"} \cup GcWarning

C17_State ==
  /\ gcIds \subseteq recorded
  /\ GcInspected => gcCur \in recorded
  /\ \A id \in Keys :
       ~(containerIDs[id] < now - GcDelay) =>
         /\ id \notin gcIds
         /\ gcCur # id

C17_Step ==
  /\ (gcPc = "gather" /\ gcPc' # gcPc) =>
       gcIds' = {id \in Keys : containerIDs[id] < now - GcDelay}
  /\ (gcPc = "loop" /\ gcPc' \notin {"loop", "sleep"}) =>
       /\ gcCur' \in gcIds
       /\ gcIds' = gcIds \ {gcCur'}
  /\ (gcPc = "loop" /\ gcPc' = "sleep") => gcIds = {}
  /\ (gcPc \notin {"gather", "loop"} \/ gcPc' = gcPc) => UNCHANGED <<gcIds, gcCur>>

\* C17: the snapshot a pass takes is exactly the set of registered
\* identifiers whose registration timestamp is before now - gcDelay; the pass
\* inspects identifiers of its snapshot only, each once, and ends when none is
\* left. An entry that is not older than gcDelay is in no snapshot and is not
\* the identifier under inspection, and every identifier in a snapshot or
\* under inspection was registered before.
C17_SnapshotExact == [](C17_State) /\ [][C17_Step]_vars

\* the pass has inspected its whole snapshot, one old entry, and left out a
\* registered entry that is not older than gcDelay
C17_Witness ==
  /\ gcPc = "classify"
  /\ gcIds = {}
  /\ gcCur \in Keys
  /\ containerIDs[gcCur] < now - GcDelay
  /\ \E id \in Keys : ~(containerIDs[id] < now - GcDelay)

\* ---------------------------------------------------------------- C18

\* C18 as stated: whenever Start gets to recordContainerID, before or after a
\* runner Cleanup, the identifier is recorded and Start goes on without fault
C18_OriginalStep ==
  \A p \in Procs :
    (pc[p] = "record" /\ (pc'[p] # "record" \/ panicked' # panicked)) =>
      /\ ~panicked'
      /\ pc'[p] = "start"
      /\ cid[p] \in DOMAIN containerIDs'

C18_Original == [][C18_OriginalStep]_vars

\* ---------------------------------------------------------------- C19

\* C19 as stated: the collector removes no container that a Start call has
\* created and registered and for which StartContainer is not yet issued
C19_OriginalStep ==
  (gcPc = "remove" /\ gcCur \in DOMAIN containers /\ gcCur \notin DOMAIN containers') =>
    \A p \in Procs : ~(pc[p] = "start" /\ cid[p] = gcCur)

C19_Original == [][C19_OriginalStep]_vars

\* ---------------------------------------------------------------- C20

C20_State ==
  mapNil =>
    /\ Keys = {}
    /\ (/\ ~panicked
        /\ gcPc \in GcRunning \ {"sleep"}
        /\ gcPc \in {"gather", "unrecord", "unrecordNF"} => mutex = "free") => ENABLED GcStep
    /\ (~panicked /\ gcPc = "sleep" /\ now + SleepTicks <= MaxTime) => ENABLED GcStep

C20_Step ==
  (mapNil /\ gcPc' # gcPc) =>
    /\ panicked' = panicked
    /\ UNCHANGED regVars
    /\ gcPc = "gather" => (gcIds' = {} /\ gcPc' = "loop")
    /\ gcPc \in {"unrecord", "unrecordNF"} => gcPc' = "loop"

\* C20: once runner Cleanup has completed, also in the middle of a pass, the
\* registry is and stays empty, every step of the collector is possible while
\* the process runs (its registry accesses whenever the mutex is free) and
\* none of them panics or changes the registry: a snapshot it takes is empty, and an unregister for an identifier
\* of an earlier snapshot changes nothing and returns to the loop.
C20_CollectorSurvivesCleanup == [](C20_State) /\ [][C20_Step]_vars

\* runner Cleanup completed while the collector was in a pass and unregistered
\* the identifier the collector then found missing; the collector's own
\* unregister of it changed nothing and the pass goes on
C20_Witness ==
  /\ mapNil
  /\ ~panicked
  /\ gcPc = "loop"
  /\ gcCur \in gcNotFound \cap unregCleanup
  /\ gcCur \notin unregGc
  /\ Keys = {}

====
